---- MODULE Spec2Model ----
(***************************************************************************)
(* kittenbark/config: a process-local, file-backed configuration cache.    *)
(*                                                                         *)
(* The model follows package config (Cache, verboseGet, the typed          *)
(* GetContext[T], UpdateContext) statement by statement.  Callers are      *)
(* goroutines; the store's sync.RWMutex is modelled at the level of its    *)
(* counters (readerCount, readerWait, the two semaphores and the writer    *)
(* mutex w) so that a release of a lock that is not held has the outcome   *)
(* the runtime gives it.  Time is a discrete clock; the file system is a   *)
(* map from path to (exists, data, mtime).                                 *)
(*                                                                         *)
(* The specifications share the actions.  Spec has the byte and the typed   *)
(* operations and both kinds of name (plain, and with leading whitespace). *)
(* SpecStore is the staleness-checked store alone (get and update of byte  *)
(* documents) for one plain name, explored to a greater depth.  SpecIO     *)
(* takes the write of a file in its two steps, SpecMap adds Cache.Stats,   *)
(* SpecTyped is the typed accessor for one name, SpecWeb the HTTP get      *)
(* handler in front of the store, SpecClient the initialisation of the     *)
(* HTTP client.  SpecStoreFair, SpecIOFair and SpecClientFair add the      *)
(* scheduler's fairness for the properties of termination.                 *)
(***************************************************************************)
EXTENDS Integers, Sequences, FiniteSets, TLC

----------------------------------------------------------------------------
(* Bounds of the model *)

\* the clock stops here
MaxTime == 3
\* calls, cancellations and changes of the directory from outside in one behaviour
\* of Spec
MaxEvents == 3
\* the same, in one behaviour of SpecStore
MaxStoreEvents == 4
\* calls and cancellations in one behaviour of SpecIO
MaxIOEvents == 4
\* calls, cancellations and file removals in one behaviour of SpecMap
MaxMapEvents == 3
\* calls and cancellations in one behaviour of SpecTyped
MaxTypedEvents == 3
\* requests and file removals in one behaviour of SpecWeb
MaxWebEvents == 3
\* calls of the Client's methods in one behaviour of SpecClient
MaxClientEvents == 5

(* Program constants *)

\* cache.syncTimeout, in ticks of the clock
SyncTimeout == 1
\* sync.rwmutexMaxReaders
rwmutexMaxReaders == 1073741824
\* net/http status codes
StatusOK == 200
StatusBadRequest == 400
StatusInternalServerError == 500

----------------------------------------------------------------------------
(* Values *)

Procs == {"g1", "g2"}

\* a config name is a sequence of characters
NameA == <<"a">>
NameSpA == <<" ", "a">>
Names == {NameA, NameSpA}

\* raw documents: two JSON objects and one JSON array
DocK1 == "{\"k\":1}"
DocK2 == "{\"k\":2}"
DocArr == "[1]"
Docs == {DocK1, DocK2, DocArr}

\* what a file holds between its truncation and the write of the new content
DocEmpty == ""

\* cache.directory
Directory == "dir"

\* the documents callers pass to update; DocK1 is what the directory holds at the start
Data == {DocK2, DocArr}

\* target types of the typed accessor: a struct {K int `json:"k"`} and a map[string]int
Types == {"struct", "map"}

Nil == "nil"
ZeroTime == 0

\* the empty string, as a config name
NoName == <<>>

\* the `config` query parameter of a request: absent (Get gives ""), or a name
Queries == {NoName, NameA}

\* request bodies: one that is not JSON, and the objects {} and {"config":"a"} by
\* the Config field they decode to
BodyInvalid == [valid |-> FALSE, Config |-> NoName]
Bodies == {BodyInvalid, [valid |-> TRUE, Config |-> NoName],
           [valid |-> TRUE, Config |-> NameA]}

\* a ResponseError body
ErrorBody == "{\"error\":...}"

\* the Host a Client is made with, as a sequence of characters
HostSlash == <<"h", "/">>

\* the methods of Client that start with client.init()
ClientOps == {"GetContext", "UpdateContext"}

\* an http.ResponseWriter nothing was written to
NoResponse == [status |-> 0, body |-> Nil]

VARIABLES
    now,        \* the clock (time.Now)
    files,      \* path -> [exists, data, mtime, ver, by]: the backing directory
    configs,    \* cache.configs: name -> entry id, 0 when the key is absent
    entries,    \* the heap of configValue objects, by id
    lock,       \* cache.lock, a sync.RWMutex
    pc,         \* where each goroutine is
    call,       \* the call each goroutine is in (or was in last)
    loc,        \* the locals of that call
    ret,        \* what the last call of each goroutine returned
    ctxDone,    \* ctx.Err() != nil for the goroutine's current call
    crashed,    \* the runtime stopped the process with a fatal error
    seen,       \* history: the LastUpdate each goroutine last observed, by name
    held,       \* history: the lock each goroutine holds by its own calls
    budget,     \* calls, cancellations and outside changes the bound still allows
    client,     \* the config_web.Client: Host, lock, initialized (and, as history, the
                \* number of times the body of init has run)
    cgo         \* each goroutine in Client.init: its position, the call it serves and,
                \* as history, the locks of the Client it holds

vars == <<now, files, configs, entries, lock, pc, call, loc, ret, ctxDone, crashed,
          seen, held, budget, client, cgo>>

----------------------------------------------------------------------------
(* Pure functions *)

IsSpace(c) == c = " "

RECURSIVE TrimLeft(_)
TrimLeft(s) ==
    IF s = <<>> THEN s
    ELSE IF IsSpace(Head(s)) THEN TrimLeft(Tail(s)) ELSE s

RECURSIVE TrimRight(_)
TrimRight(s) ==
    IF s = <<>> THEN s
    ELSE IF IsSpace(s[Len(s)]) THEN TrimRight(SubSeq(s, 1, Len(s) - 1)) ELSE s

\* strings.TrimSpace
TrimSpace(s) == TrimRight(TrimLeft(s))

\* filepath.Join(cache.directory, fmt.Sprintf("%s.json", x)): within one directory a
\* path is identified by x
JoinPath(x) == x

\* the path verboseGet stats and reads
GetPath(name) == JoinPath(TrimSpace(name))

\* the path UpdateContext writes
UpdatePath(name) == JoinPath(name)

Paths == {GetPath(n) : n \in Names} \cup {UpdatePath(n) : n \in Names}

\* the number a document {"k":n} carries; 0 for another document
DocNumber(raw) == IF raw = DocK1 THEN 1 ELSE IF raw = DocK2 THEN 2 ELSE 0

IsObject(raw) == raw \in {DocK1, DocK2}

\* json.Unmarshal(raw, &result) for result of type typ: an error for a document that
\* is not an object, else the decoded value
UnmarshalOK(raw, typ) == IsObject(raw)

Unmarshal(raw, typ) ==
    IF typ = "struct" THEN [K |-> DocNumber(raw)]
    ELSE [key \in {"k"} |-> DocNumber(raw)]

\* t.After(u)
After(t, u) == t > u

\* time.Since(t)
Since(t) == now - t

----------------------------------------------------------------------------
(* sync.RWMutex *)

\* RLock: the reader announces itself; it has to wait on readerSem when a writer
\* holds or waits for the lock
RLockOp(l) == [l EXCEPT !.readerCount = @ + 1]

\* a variant of RLockBlocks in which a reader never waits for a writer
RLockNeverBlocks(l) == FALSE

RLockBlocks(l) == RLockOp(l).readerCount < 0

\* RUnlock of a lock nobody holds for reading is a fatal error of the runtime
RUnlockFatal(l) ==
    LET r == l.readerCount - 1
    IN r < 0 /\ (r + 1 = 0 \/ r + 1 = -rwmutexMaxReaders)

RUnlockOp(l) ==
    LET r == l.readerCount - 1
        l1 == [l EXCEPT !.readerCount = r]
    IN IF r >= 0 THEN l1
       ELSE LET l2 == [l1 EXCEPT !.readerWait = @ - 1]
            IN IF l2.readerWait = 0 THEN [l2 EXCEPT !.writerSem = @ + 1] ELSE l2

\* Lock: take the writer mutex, announce the writer to the readers, and wait for
\* the active readers on writerSem
CanLock(l) == l.w = FALSE

LockOp(l) ==
    LET r == l.readerCount
        l1 == [l EXCEPT !.w = TRUE, !.readerCount = @ - rwmutexMaxReaders]
    IN IF r # 0 THEN [l1 EXCEPT !.readerWait = @ + r] ELSE l1

LockBlocks(l) == l.readerCount # 0 /\ LockOp(l).readerWait # 0

\* Unlock
UnlockFatal(l) == l.readerCount + rwmutexMaxReaders >= rwmutexMaxReaders

UnlockOp(l) ==
    LET r == l.readerCount + rwmutexMaxReaders
    IN [l EXCEPT !.readerCount = r, !.readerSem = @ + r, !.w = FALSE]

\* a variant of ReleaseShared that does not release
ReleaseSharedForgotten(l) == [fatal |-> FALSE, lock |-> l, released |-> <<>>]

\* defer cache.lock.RUnlock(): whether the runtime stops the process, the lock
\* afterwards, and the releases the caller has made
ReleaseShared(l) ==
    [fatal |-> RUnlockFatal(l), lock |-> RUnlockOp(l), released |-> <<"shared">>]

\* defer cache.lock.Unlock()
ReleaseExclusive(l) ==
    [fatal |-> UnlockFatal(l), lock |-> UnlockOp(l), released |-> <<"exclusive">>]

\* verboseGet's read-error return: the RUnlock deferred at line 151 runs first, then
\* the Unlock deferred at line 137
ReleaseReadError(l) ==
    IF RUnlockFatal(l) THEN [fatal |-> TRUE, lock |-> l, released |-> <<"shared">>]
    ELSE [fatal |-> UnlockFatal(RUnlockOp(l)), lock |-> UnlockOp(RUnlockOp(l)),
          released |-> <<"shared", "exclusive">>]

\* what a caller holding h holds after the releases rs: a release of the lock it holds
\* leaves it with none, a release of a lock it does not hold is recorded as "bad"
RECURSIVE AfterRelease(_, _)
AfterRelease(h, rs) ==
    IF rs = <<>> THEN h
    ELSE AfterRelease(IF h = Head(rs) THEN "none" ELSE "bad", Tail(rs))

----------------------------------------------------------------------------
(* State *)

\* an empty decoded slot (a nil interface value) and a set one: the dynamic type, the
\* identity of the decoded object and the decoded value
NoValue == [set |-> FALSE, typ |-> Nil, obj |-> <<0, 0>>, val |-> <<>>]

NoCall == [op |-> "none", name |-> NameA, typ |-> Nil, data |-> Nil, start |-> 0,
           query |-> NoName, body |-> BodyInvalid]

\* saw, mtime: the config and the stat.ModTime() verboseGet found under the shared
\* lock; cfg, updated: what verboseGet returned to GetContext[T]; stats, reads, writes
\* count the file operations of the call
NoLoc == [saw |-> 0, mtime |-> ZeroTime, cfg |-> 0, updated |-> FALSE,
          stats |-> 0, reads |-> 0, writes |-> 0]

\* err: "none" while no call has returned, Nil for success, else the error; entry,
\* loadedAt, raw: the Entry handed back; val: the pointer the typed accessor returns;
\* saw, stats, reads, writes: as in the locals; snapshot: the Stats value Cache.Stats
\* returns; resp: what HandlerGetVerbose wrote to its http.ResponseWriter
NoRet == [err |-> "none", entry |-> 0, loadedAt |-> ZeroTime, raw |-> Nil,
          val |-> NoValue, saw |-> 0, stats |-> 0, reads |-> 0, writes |-> 0,
          snapshot |-> [Directory |-> Nil, Configs |-> {}], resp |-> NoResponse]

\* &config_web.Client{Host: ...}: the zero RWMutex, initialized false
NewClient ==
    [Host |-> HostSlash, initialized |-> FALSE, inits |-> 0,
     lock |-> [readerCount |-> 0, readerWait |-> 0, readerSem |-> 0,
               writerSem |-> 0, w |-> FALSE]]

\* a goroutine outside Client.init, holding nothing
NoClientCall == [pc |-> "idle", op |-> "none", shared |-> 0, exclusive |-> FALSE]

InitWith(events) ==
    /\ now = 1
    /\ files = [p \in Paths |->
                  IF p = JoinPath(NameA)
                  THEN [exists |-> TRUE, data |-> DocK1, mtime |-> 1, ver |-> 0,
                        by |-> "outside"]
                  ELSE [exists |-> FALSE, data |-> Nil, mtime |-> ZeroTime, ver |-> 0,
                        by |-> "outside"]]
    /\ configs = [n \in Names |-> 0]
    /\ entries = <<>>
    /\ lock = [readerCount |-> 0, readerWait |-> 0, readerSem |-> 0,
               writerSem |-> 0, w |-> FALSE]
    /\ pc = [p \in Procs |-> "idle"]
    /\ call = [p \in Procs |-> NoCall]
    /\ loc = [p \in Procs |-> NoLoc]
    /\ ret = [p \in Procs |-> NoRet]
    /\ ctxDone = [p \in Procs |-> FALSE]
    /\ crashed = FALSE
    /\ seen = [p \in Procs |-> [n \in Names |-> ZeroTime]]
    /\ held = [p \in Procs |-> "none"]
    /\ budget = events
    /\ client = NewClient
    /\ cgo = [p \in Procs |-> NoClientCall]

Init == InitWith(MaxEvents)

InitStore == InitWith(MaxStoreEvents)

----------------------------------------------------------------------------
(* File primitives *)

\* os.Stat(path): err != nil when the file does not exist
StatFails(path) == ~files[path].exists

ModTime(path) == files[path].mtime

\* os.ReadFile(path)
ReadFails(path) == ~files[path].exists

ReadFile(path) == files[path].data

\* a variant of WriteFile that opens without O_TRUNC semantics: it creates a missing
\* file and leaves the content of an existing one alone
WriteFileKeepsContent(path, data, by) ==
    [files EXCEPT ![path] = [exists |-> TRUE,
                             data |-> IF @.exists THEN @.data ELSE data,
                             mtime |-> now, ver |-> @.ver + 1, by |-> by]]

\* os.WriteFile(path, data, 0666); ver and by are history: the number of changes of
\* the file so far, and who made the last one
WriteFile(path, data, by) ==
    [files EXCEPT ![path] = [exists |-> TRUE, data |-> data, mtime |-> now,
                             ver |-> @.ver + 1, by |-> by]]

----------------------------------------------------------------------------
(* What a call hands back *)

Result(err, cfg, loadedAt, raw, val, l) ==
    [err |-> err, entry |-> cfg, loadedAt |-> loadedAt, raw |-> raw, val |-> val,
     saw |-> l.saw, stats |-> l.stats, reads |-> l.reads, writes |-> l.writes,
     snapshot |-> NoRet.snapshot, resp |-> NoResponse]

RetErr(err, l) == Result(err, 0, ZeroTime, Nil, NoValue, l)

\* Cache.GetContext, lines 77-84, given verboseGet's (cfg, err); entry is *cfg
RawResult(cfg, entry, err, l) ==
    IF err # Nil THEN RetErr(err, l)
    ELSE IF cfg = 0 THEN RetErr(Nil, l)
    ELSE Result(Nil, cfg, entry.LastUpdate, entry.Raw, NoValue, l)

\* GetContext[T] returning cfg.Value.(*T)
TypedResult(cfg, entry, value, l) ==
    Result(Nil, cfg, entry.LastUpdate, Nil, value, l)

\* HandlerGetVerbose, lines 36-48, given the result r of cache.Get
HandlerGetResponse(r) ==
    IF r.err # Nil
    THEN [r EXCEPT !.resp = [status |-> StatusInternalServerError, body |-> ErrorBody]]
    ELSE [r EXCEPT !.resp = [status |-> StatusOK, body |-> r.raw]]

\* a variant of CtxErr that never sees the cancellation
CtxErrIgnored(p) == FALSE

\* ctx.Err() != nil
CtxErr(p) == ctxDone[p]

\* the call returns r to its caller
Return(p, r) ==
    /\ pc' = [pc EXCEPT ![p] = "idle"]
    /\ ret' = [ret EXCEPT ![p] = r]
    /\ loc' = [loc EXCEPT ![p] = NoLoc]
    /\ call' = [call EXCEPT ![p] = [NoCall EXCEPT !.op = call[p].op,
                                                   !.name = call[p].name,
                                                   !.query = call[p].query,
                                                   !.body = call[p].body]]
    /\ seen' = IF r.err = Nil /\ r.entry # 0
               THEN [seen EXCEPT ![p][call[p].name] = r.loadedAt]
               ELSE seen

\* the continuation of a caller of verboseGet once it has returned (cfg, updated, err):
\* HandlerGetVerbose answers; Cache.GetContext returns; GetContext[T] returns the error
\* or goes on to line 28
AfterVerboseGet(p, cfg, entry, updated, err, l) ==
    IF call[p].op = "hget"
    THEN Return(p, HandlerGetResponse(RawResult(cfg, entry, err, l)))
    ELSE IF call[p].op = "get" \/ err # Nil
    THEN Return(p, RawResult(cfg, entry, err, l))
    ELSE /\ pc' = [pc EXCEPT ![p] = "tg_peek"]
         /\ loc' = [loc EXCEPT ![p] = [l EXCEPT !.cfg = cfg, !.updated = updated,
                                                !.mtime = ZeroTime]]
         /\ UNCHANGED <<ret, call, seen>>

\* the runtime's fatal error, raised by a release of goroutine p, ends the process
\* where it stands
Fatal(p, rel) ==
    /\ crashed' = TRUE
    /\ held' = [held EXCEPT ![p] = AfterRelease(@, rel.released)]
    /\ UNCHANGED <<client, cgo, now, files, configs, entries, lock, pc, call, loc, ret, ctxDone,
                   seen, budget>>

----------------------------------------------------------------------------
(* verboseGet *)

NoEntry == [name |-> NameA, LastUpdate |-> ZeroTime, Raw |-> Nil, Value |-> NoValue,
            decodes |-> 0, obs |-> 0, statM |-> ZeroTime, prev |-> 0, ver |-> 0]

\* *cfg
EntryOf(cfg) == IF cfg = 0 THEN NoEntry ELSE entries[cfg]

\* a variant of Fresh with the comparison turned around
FreshReversed(config) == config # 0 /\ Since(EntryOf(config).LastUpdate) > SyncTimeout

\* line 114: ok && time.Since(config.LastUpdate) < cache.syncTimeout
Fresh(config) == config # 0 /\ Since(EntryOf(config).LastUpdate) < SyncTimeout

\* lines 118-121
LastUpdateOf(config) == IF config # 0 THEN EntryOf(config).LastUpdate ELSE ZeroTime

\* a variant of OnStatError that serves the cached Entry when there is one
OnStatErrorServesStale(config) ==
    IF config # 0 THEN [cfg |-> config, err |-> Nil] ELSE [cfg |-> 0, err |-> "NotExist"]

\* lines 125-128: what verboseGet returns when the stat fails
OnStatError(config) == [cfg |-> 0, err |-> "NotExist"]

\* a variant of NotModified that takes an equal modification time for a change
NotModifiedStrict(mtime, lastUpdate) == mtime < lastUpdate

\* line 129: !stat.ModTime().After(lastUpdate)
NotModified(mtime, lastUpdate) == ~After(mtime, lastUpdate)

\* a variant of AlreadyReloaded without the second check
NeverAlreadyReloaded(config, mtime) == FALSE

\* line 144: ok && !stat.ModTime().After(config.LastUpdate)
AlreadyReloaded(config, mtime) ==
    config # 0 /\ ~After(mtime, EntryOf(config).LastUpdate)

\* a variant of Loaded that takes the time at the entry of verboseGet
LoadedAtCallStart(p) == call[p].start

\* line 148: loaded := time.Now()
Loaded(p) == now

\* lines 154-157: the new configValue; the other fields are history: the key it is
\* installed under, the number of decodes stored in its slot, the Entry and the
\* modification time its loader saw under the shared lock, the Entry it replaces and
\* the version of the file it was read from
NewEntry(p, name, path) ==
    [name |-> name, LastUpdate |-> Loaded(p), Raw |-> ReadFile(path), Value |-> NoValue,
     decodes |-> 0, obs |-> loc[p].saw, statM |-> loc[p].mtime, prev |-> configs[name],
     ver |-> files[path].ver]

\* a goroutine calls Cache.GetContext (typ = Nil) or GetContext[T] (typ = T);
\* verboseGet starts with cache.lock.RLock()
StartGet(p, name, typ) ==
    /\ ~crashed
    /\ pc[p] = "idle"
    /\ budget > 0
    /\ budget' = budget - 1
    /\ call' = [call EXCEPT ![p] = [NoCall EXCEPT !.op = IF typ = Nil THEN "get" ELSE "tget",
                                                   !.name = name, !.typ = typ,
                                                   !.start = now]]
    /\ ctxDone' = [ctxDone EXCEPT ![p] = FALSE]
    /\ ret' = [ret EXCEPT ![p] = NoRet]
    /\ loc' = [loc EXCEPT ![p] = NoLoc]
    /\ lock' = RLockOp(lock)
    /\ pc' = [pc EXCEPT ![p] = IF RLockBlocks(lock) THEN "vg_rwait" ELSE "vg_shared"]
    /\ held' = [held EXCEPT ![p] = IF RLockBlocks(lock) THEN @ ELSE "shared"]
    /\ UNCHANGED <<client, cgo, now, files, configs, entries, crashed, seen>>

\* a reader blocked in RLock is woken through readerSem
RLockWake(p) ==
    /\ ~crashed
    /\ pc[p] \in {"vg_rwait", "st_rwait"}
    /\ lock.readerSem > 0
    /\ lock' = [lock EXCEPT !.readerSem = @ - 1]
    /\ pc' = [pc EXCEPT ![p] = IF pc[p] = "vg_rwait" THEN "vg_shared" ELSE "st_shared"]
    /\ held' = [held EXCEPT ![p] = "shared"]
    /\ UNCHANGED <<client, cgo, now, files, configs, entries, call, loc, ret, ctxDone, crashed,
                   seen, budget>>

\* verboseGet under the shared lock, lines 108-135
VerboseGetShared(p) ==
    /\ ~crashed
    /\ pc[p] = "vg_shared"
    /\ LET name == call[p].name
           config == configs[name]
           path == GetPath(name)
           looked == [loc[p] EXCEPT !.saw = config]
           statted == [looked EXCEPT !.stats = @ + 1]
           rel == ReleaseShared(lock)
       IN IF rel.fatal THEN Fatal(p, rel)
          ELSE /\ lock' = rel.lock
               /\ held' = [held EXCEPT ![p] = AfterRelease(@, rel.released)]
               /\ IF CtxErr(p)
                  THEN AfterVerboseGet(p, 0, NoEntry, FALSE, "Canceled", loc[p])
                  ELSE IF Fresh(config)
                  THEN AfterVerboseGet(p, config, EntryOf(config), FALSE, Nil, looked)
                  ELSE IF StatFails(path)
                  THEN AfterVerboseGet(p, OnStatError(config).cfg,
                                       EntryOf(OnStatError(config).cfg), FALSE,
                                       OnStatError(config).err, statted)
                  ELSE IF NotModified(ModTime(path), LastUpdateOf(config))
                  THEN AfterVerboseGet(p, config, EntryOf(config), FALSE, Nil, statted)
                  ELSE /\ pc' = [pc EXCEPT ![p] = "vg_lock"]
                       /\ loc' = [loc EXCEPT ![p] = [statted EXCEPT !.mtime = ModTime(path)]]
                       /\ UNCHANGED <<ret, call, seen>>
               /\ UNCHANGED <<client, cgo, now, files, configs, entries, ctxDone, crashed, budget>>

\* cache.lock.Lock(): the first half, up to the wait for the active readers
LockStart(p) ==
    /\ ~crashed
    /\ pc[p] \in {"vg_lock", "tg_lock", "up_lock"}
    /\ CanLock(lock)
    /\ lock' = LockOp(lock)
    /\ pc' = [pc EXCEPT ![p] =
                IF LockBlocks(lock)
                THEN (CASE pc[p] = "vg_lock" -> "vg_lwait"
                        [] pc[p] = "tg_lock" -> "tg_lwait"
                        [] pc[p] = "up_lock" -> "up_lwait")
                ELSE (CASE pc[p] = "vg_lock" -> "vg_excl"
                        [] pc[p] = "tg_lock" -> "tg_excl"
                        [] pc[p] = "up_lock" -> "up_excl")]
    /\ held' = [held EXCEPT ![p] = IF LockBlocks(lock) THEN @ ELSE "exclusive"]
    /\ UNCHANGED <<client, cgo, now, files, configs, entries, call, loc, ret, ctxDone, crashed,
                   seen, budget>>

\* cache.lock.Lock(): the last reader has left and released writerSem
LockWake(p) ==
    /\ ~crashed
    /\ pc[p] \in {"vg_lwait", "tg_lwait", "up_lwait"}
    /\ lock.writerSem > 0
    /\ lock' = [lock EXCEPT !.writerSem = @ - 1]
    /\ pc' = [pc EXCEPT ![p] =
                CASE pc[p] = "vg_lwait" -> "vg_excl"
                  [] pc[p] = "tg_lwait" -> "tg_excl"
                  [] pc[p] = "up_lwait" -> "up_excl"]
    /\ held' = [held EXCEPT ![p] = "exclusive"]
    /\ UNCHANGED <<client, cgo, now, files, configs, entries, call, loc, ret, ctxDone, crashed,
                   seen, budget>>

\* verboseGet under the exclusive lock, lines 139-159, with its deferred releases
VerboseGetExclusive(p) ==
    /\ ~crashed
    /\ pc[p] = "vg_excl"
    /\ LET name == call[p].name
           config == configs[name]
           path == GetPath(name)
           reading == ~CtxErr(p) /\ ~AlreadyReloaded(config, loc[p].mtime)
           readl == [loc[p] EXCEPT !.reads = @ + 1]
           new == Len(entries) + 1
           rel == IF reading /\ ReadFails(path)
                  THEN ReleaseReadError(lock)
                  ELSE ReleaseExclusive(lock)
       IN IF rel.fatal THEN Fatal(p, rel)
          ELSE /\ lock' = rel.lock
               /\ held' = [held EXCEPT ![p] = AfterRelease(@, rel.released)]
               /\ IF CtxErr(p)
                  THEN /\ AfterVerboseGet(p, 0, NoEntry, FALSE, "Canceled", loc[p])
                       /\ UNCHANGED <<configs, entries>>
                  ELSE IF AlreadyReloaded(config, loc[p].mtime)
                  THEN /\ AfterVerboseGet(p, config, EntryOf(config), FALSE, Nil, loc[p])
                       /\ UNCHANGED <<configs, entries>>
                  ELSE IF ReadFails(path)
                  THEN /\ AfterVerboseGet(p, 0, NoEntry, FALSE, "NotExist", readl)
                       /\ UNCHANGED <<configs, entries>>
                  ELSE /\ entries' = Append(entries, NewEntry(p, name, path))
                       /\ configs' = [configs EXCEPT ![name] = new]
                       /\ AfterVerboseGet(p, new, NewEntry(p, name, path), TRUE, Nil, readl)
               /\ UNCHANGED <<client, cgo, now, files, ctxDone, crashed, budget>>

----------------------------------------------------------------------------
(* The typed accessor GetContext[T] *)

\* the assertion cfg.Value.(*T) of lines 29 and 37: the pointer, or a panic when the
\* slot holds a value of another type
TypeAssert(cfg, value, typ, l) ==
    IF value.typ = typ
    THEN TypedResult(cfg, EntryOf(cfg), value, l)
    ELSE RetErr("panic", l)

\* lines 28 and 36: cfg.Value != nil && !updated
HasDecoded(value, updated) == value.set /\ ~updated

\* lines 40-44: the value stored in the slot, a new object holding the decode of raw
Decoded(cfg, typ) ==
    [set |-> TRUE, typ |-> typ, obj |-> <<cfg, entries[cfg].decodes + 1>>,
     val |-> Unmarshal(entries[cfg].Raw, typ)]

\* the slot is an interface value of two words, its dynamic type and its pointer. A read
\* with no lock held that runs while another goroutine executes the assignment of line
\* 44 is a data race, and can see the one word as it was and the other as it will be
TornReads(old, new) ==
    {[set |-> TRUE, typ |-> new.typ, obj |-> old.obj, val |-> old.val],
     [set |-> old.set, typ |-> old.typ, obj |-> new.obj, val |-> new.val]}

\* the values the read of cfg.Value at lines 28-29, made with no lock held, can give
SlotReads(p, cfg) ==
    {entries[cfg].Value} \cup
    UNION {TornReads(entries[cfg].Value, Decoded(cfg, call[q].typ)) :
             q \in {r \in Procs \ {p} : pc[r] = "tg_store" /\ loc[r].cfg = cfg}}

\* lines 28-30: the decoded slot is read with no lock held (a nil cfg cannot be
\* dereferenced)
TypedPeek(p) ==
    /\ ~crashed
    /\ pc[p] = "tg_peek"
    /\ LET cfg == loc[p].cfg
       IN IF cfg = 0
          THEN Return(p, RetErr("panic", loc[p]))
          ELSE \E value \in SlotReads(p, cfg) :
                 IF HasDecoded(value, loc[p].updated)
                 THEN Return(p, TypeAssert(cfg, value, call[p].typ, loc[p]))
                 ELSE /\ pc' = [pc EXCEPT ![p] = "tg_lock"]
                      /\ UNCHANGED <<loc, ret, call, seen>>
    /\ UNCHANGED <<client, cgo, now, files, configs, entries, lock, ctxDone, crashed, held, budget>>

\* lines 33-43 under the exclusive lock; a return runs the deferred Unlock
TypedDecode(p) ==
    /\ ~crashed
    /\ pc[p] = "tg_excl"
    /\ LET cfg == loc[p].cfg
           value == entries[cfg].Value
           typ == call[p].typ
           rel == ReleaseExclusive(lock)
           decoding == /\ ~CtxErr(p)
                       /\ ~HasDecoded(value, loc[p].updated)
                       /\ UnmarshalOK(entries[cfg].Raw, typ)
       IN IF decoding
          THEN /\ pc' = [pc EXCEPT ![p] = "tg_store"]
               /\ UNCHANGED <<client, cgo, now, files, configs, entries, lock, call, loc, ret,
                              ctxDone, crashed, seen, held, budget>>
          ELSE IF rel.fatal THEN Fatal(p, rel)
          ELSE /\ lock' = rel.lock
               /\ held' = [held EXCEPT ![p] = AfterRelease(@, rel.released)]
               /\ IF CtxErr(p)
                  THEN Return(p, RetErr("Canceled", loc[p]))
                  ELSE IF HasDecoded(value, loc[p].updated)
                  THEN Return(p, TypeAssert(cfg, value, typ, loc[p]))
                  ELSE Return(p, RetErr("Syntax", loc[p]))
               /\ UNCHANGED <<client, cgo, now, files, configs, entries, ctxDone, crashed, budget>>

\* lines 44-45: cfg.Value = &result, the return and the deferred Unlock
TypedStore(p) ==
    /\ ~crashed
    /\ pc[p] = "tg_store"
    /\ LET cfg == loc[p].cfg
           typ == call[p].typ
           rel == ReleaseExclusive(lock)
       IN IF rel.fatal THEN Fatal(p, rel)
          ELSE /\ lock' = rel.lock
               /\ held' = [held EXCEPT ![p] = AfterRelease(@, rel.released)]
               /\ entries' = [entries EXCEPT ![cfg].Value = Decoded(cfg, typ),
                                             ![cfg].decodes = @ + 1]
               /\ Return(p, TypedResult(cfg, entries[cfg], Decoded(cfg, typ), loc[p]))
               /\ UNCHANGED <<client, cgo, now, files, configs, ctxDone, crashed, budget>>

----------------------------------------------------------------------------
(* Cache.UpdateContext *)

\* a goroutine calls Cache.UpdateContext, which starts with cache.lock.Lock()
StartUpdate(p, name, data) ==
    /\ ~crashed
    /\ pc[p] = "idle"
    /\ budget > 0
    /\ budget' = budget - 1
    /\ call' = [call EXCEPT ![p] = [NoCall EXCEPT !.op = "update", !.name = name,
                                                   !.data = data, !.start = now]]
    /\ ctxDone' = [ctxDone EXCEPT ![p] = FALSE]
    /\ ret' = [ret EXCEPT ![p] = NoRet]
    /\ loc' = [loc EXCEPT ![p] = NoLoc]
    /\ pc' = [pc EXCEPT ![p] = "up_lock"]
    /\ UNCHANGED <<client, cgo, now, files, configs, entries, lock, crashed, seen, held>>

\* lines 90-94 under the exclusive lock, with the deferred Unlock
UpdateWrite(p) ==
    /\ ~crashed
    /\ pc[p] = "up_excl"
    /\ LET rel == ReleaseExclusive(lock)
       IN IF rel.fatal THEN Fatal(p, rel)
          ELSE /\ lock' = rel.lock
               /\ held' = [held EXCEPT ![p] = AfterRelease(@, rel.released)]
               /\ IF CtxErr(p)
                  THEN Return(p, RetErr("Canceled", loc[p])) /\ UNCHANGED files
                  ELSE /\ files' = WriteFile(UpdatePath(call[p].name), call[p].data, "update")
                       /\ Return(p, RetErr(Nil, [loc[p] EXCEPT !.writes = @ + 1]))
               /\ UNCHANGED <<client, cgo, now, configs, entries, ctxDone, crashed, budget>>

\* os.WriteFile opens the file with O_TRUNC and then writes data: the two steps of
\* line 94, for the specification that looks at the file between them.  First the
\* check of the context and the truncation
UpdateTruncate(p) ==
    /\ ~crashed
    /\ pc[p] = "up_excl"
    /\ LET rel == ReleaseExclusive(lock)
       IN IF ~CtxErr(p)
          THEN /\ files' = WriteFile(UpdatePath(call[p].name), DocEmpty, "update")
               /\ pc' = [pc EXCEPT ![p] = "up_write"]
               /\ UNCHANGED <<client, cgo, now, configs, entries, lock, call, loc, ret, ctxDone,
                              crashed, seen, held, budget>>
          ELSE IF rel.fatal THEN Fatal(p, rel)
          ELSE /\ lock' = rel.lock
               /\ held' = [held EXCEPT ![p] = AfterRelease(@, rel.released)]
               /\ Return(p, RetErr("Canceled", loc[p]))
               /\ UNCHANGED <<client, cgo, now, files, configs, entries, ctxDone, crashed, budget>>

\* then the write of the content, the return and the deferred Unlock
UpdateFinish(p) ==
    /\ ~crashed
    /\ pc[p] = "up_write"
    /\ LET rel == ReleaseExclusive(lock)
       IN IF rel.fatal THEN Fatal(p, rel)
          ELSE /\ lock' = rel.lock
               /\ held' = [held EXCEPT ![p] = AfterRelease(@, rel.released)]
               /\ files' = [files EXCEPT ![UpdatePath(call[p].name)].data = call[p].data,
                                         ![UpdatePath(call[p].name)].mtime = now]
               /\ Return(p, RetErr(Nil, [loc[p] EXCEPT !.writes = @ + 1]))
               /\ UNCHANGED <<client, cgo, now, configs, entries, ctxDone, crashed, budget>>

----------------------------------------------------------------------------
(* Cache.Stats *)

\* a goroutine calls Cache.Stats, which starts with cache.lock.RLock()
StartStats(p) ==
    /\ ~crashed
    /\ pc[p] = "idle"
    /\ budget > 0
    /\ budget' = budget - 1
    /\ call' = [call EXCEPT ![p] = [NoCall EXCEPT !.op = "stats", !.start = now]]
    /\ ctxDone' = [ctxDone EXCEPT ![p] = FALSE]
    /\ ret' = [ret EXCEPT ![p] = NoRet]
    /\ loc' = [loc EXCEPT ![p] = NoLoc]
    /\ lock' = RLockOp(lock)
    /\ pc' = [pc EXCEPT ![p] = IF RLockBlocks(lock) THEN "st_rwait" ELSE "st_shared"]
    /\ held' = [held EXCEPT ![p] = IF RLockBlocks(lock) THEN @ ELSE "shared"]
    /\ UNCHANGED <<client, cgo, now, files, configs, entries, crashed, seen>>

\* a variant of StatsOf that returns before the loop over the keys
StatsOfDirectoryOnly(m) == [Directory |-> Directory, Configs |-> {}]

\* lines 170-175: the keys of cache.configs
StatsOf(m) == [Directory |-> Directory, Configs |-> {n \in DOMAIN m : m[n] # 0}]

\* lines 169-176 under the shared lock, with the deferred RUnlock
Stats(p) ==
    /\ ~crashed
    /\ pc[p] = "st_shared"
    /\ LET rel == ReleaseShared(lock)
       IN IF rel.fatal THEN Fatal(p, rel)
          ELSE /\ lock' = rel.lock
               /\ held' = [held EXCEPT ![p] = AfterRelease(@, rel.released)]
               /\ Return(p, [RetErr(Nil, loc[p]) EXCEPT !.snapshot = StatsOf(configs)])
               /\ UNCHANGED <<client, cgo, now, files, configs, entries, ctxDone, crashed, budget>>

----------------------------------------------------------------------------
(* HandlerGetVerbose *)

\* json.NewDecoder(req.Body).Decode(&body) fails
DecodeFails(body) == ~body.valid

\* lines 22-31: configName after the query parameter and the body have been looked at;
\* the decoded body.Config is not assigned to it
ConfigName(query, body) == query

\* lines 22-36: a request arrives; the handler answers 400 when it has to decode the
\* body and cannot, returns an error with nothing written when configName is empty,
\* and else calls cache.Get(configName), which starts with cache.lock.RLock()
StartHandlerGet(p, query, body) ==
    /\ ~crashed
    /\ pc[p] = "idle"
    /\ budget > 0
    /\ budget' = budget - 1
    /\ ctxDone' = [ctxDone EXCEPT ![p] = FALSE]
    /\ loc' = [loc EXCEPT ![p] = NoLoc]
    /\ LET c == [NoCall EXCEPT !.op = "hget", !.query = query, !.body = body,
                                !.start = now]
           name == ConfigName(query, body)
       IN IF query = NoName /\ DecodeFails(body)
          THEN /\ call' = [call EXCEPT ![p] = c]
               /\ ret' = [ret EXCEPT ![p] =
                             [RetErr("BadRequest", NoLoc) EXCEPT
                                !.resp = [status |-> StatusBadRequest, body |-> ErrorBody]]]
               /\ UNCHANGED <<lock, pc, held>>
          ELSE IF name = NoName
          THEN /\ call' = [call EXCEPT ![p] = c]
               /\ ret' = [ret EXCEPT ![p] = RetErr("NameNotFound", NoLoc)]
               /\ UNCHANGED <<lock, pc, held>>
          ELSE /\ call' = [call EXCEPT ![p] = [c EXCEPT !.name = name]]
               /\ ret' = [ret EXCEPT ![p] = NoRet]
               /\ lock' = RLockOp(lock)
               /\ pc' = [pc EXCEPT ![p] = IF RLockBlocks(lock) THEN "vg_rwait"
                                          ELSE "vg_shared"]
               /\ held' = [held EXCEPT ![p] = IF RLockBlocks(lock) THEN @ ELSE "shared"]
    /\ UNCHANGED <<client, cgo, now, files, configs, entries, crashed, seen>>

----------------------------------------------------------------------------
(* The environment *)

\* time passes
Tick ==
    /\ ~crashed
    /\ now < MaxTime
    /\ now' = now + 1
    /\ UNCHANGED <<client, cgo, files, configs, entries, lock, pc, call, loc, ret, ctxDone, crashed,
                   seen, held, budget>>

\* the caller's context is cancelled while its call is running (the handler's
\* cache.Get runs under context.Background())
Cancel(p) ==
    /\ ~crashed
    /\ pc[p] # "idle"
    /\ call[p].op # "hget"
    /\ ~ctxDone[p]
    /\ budget > 0
    /\ budget' = budget - 1
    /\ ctxDone' = [ctxDone EXCEPT ![p] = TRUE]
    /\ UNCHANGED <<client, cgo, now, files, configs, entries, lock, pc, call, loc, ret, crashed, seen,
                   held>>

\* something outside the process removes a backing file
RemoveFile(path) ==
    /\ ~crashed
    /\ files[path].exists
    /\ budget > 0
    /\ budget' = budget - 1
    /\ files' = [files EXCEPT ![path] = [exists |-> FALSE, data |-> Nil,
                                         mtime |-> ZeroTime, ver |-> @.ver + 1,
                                         by |-> "outside"]]
    /\ UNCHANGED <<client, cgo, now, configs, entries, lock, pc, call, loc, ret, ctxDone, crashed,
                   seen, held>>

\* something outside the process writes a backing file
ModifyFile(path, data) ==
    /\ ~crashed
    /\ budget > 0
    /\ budget' = budget - 1
    /\ files' = WriteFile(path, data, "outside")
    /\ UNCHANGED <<client, cgo, now, configs, entries, lock, pc, call, loc, ret, ctxDone, crashed,
                   seen, held>>

----------------------------------------------------------------------------
(* Specifications *)

Next ==
    \/ \E p \in Procs, name \in Names, typ \in Types \cup {Nil} : StartGet(p, name, typ)
    \/ \E p \in Procs : RLockWake(p)
    \/ \E p \in Procs : VerboseGetShared(p)
    \/ \E p \in Procs : LockStart(p)
    \/ \E p \in Procs : LockWake(p)
    \/ \E p \in Procs : VerboseGetExclusive(p)
    \/ \E p \in Procs : TypedPeek(p)
    \/ \E p \in Procs : TypedDecode(p)
    \/ \E p \in Procs : TypedStore(p)
    \/ \E p \in Procs, name \in Names, data \in Data : StartUpdate(p, name, data)
    \/ \E p \in Procs : UpdateWrite(p)
    \/ Tick
    \/ \E p \in Procs : Cancel(p)
    \/ \E path \in Paths : RemoveFile(path)

Spec == Init /\ [][Next]_vars

\* the store alone: Cache.GetContext and Cache.UpdateContext of one plain name, whose
\* file is also written from outside the process
NextStore ==
    \/ \E p \in Procs : StartGet(p, NameA, Nil)
    \/ \E p \in Procs : RLockWake(p)
    \/ \E p \in Procs : VerboseGetShared(p)
    \/ \E p \in Procs : LockStart(p)
    \/ \E p \in Procs : LockWake(p)
    \/ \E p \in Procs : VerboseGetExclusive(p)
    \/ \E p \in Procs, data \in Data : StartUpdate(p, NameA, data)
    \/ \E p \in Procs : UpdateWrite(p)
    \/ Tick
    \/ \E p \in Procs : Cancel(p)
    \/ RemoveFile(GetPath(NameA))
    \/ \E data \in Data : ModifyFile(GetPath(NameA), data)

SpecStore == InitStore /\ [][NextStore]_vars

\* Cache.GetContext and Cache.UpdateContext of one plain name with nothing else
\* touching the directory, the write of the file taken in its two steps
InitIO == InitWith(MaxIOEvents)

NextIO ==
    \/ \E p \in Procs : StartGet(p, NameA, Nil)
    \/ \E p \in Procs : RLockWake(p)
    \/ \E p \in Procs : VerboseGetShared(p)
    \/ \E p \in Procs : LockStart(p)
    \/ \E p \in Procs : LockWake(p)
    \/ \E p \in Procs : VerboseGetExclusive(p)
    \/ \E p \in Procs, data \in Data : StartUpdate(p, NameA, data)
    \/ \E p \in Procs : UpdateTruncate(p)
    \/ \E p \in Procs : UpdateFinish(p)
    \/ Tick
    \/ \E p \in Procs : Cancel(p)

SpecIO == InitIO /\ [][NextIO]_vars

\* the mapping: Cache.GetContext, Cache.UpdateContext and Cache.Stats of both names,
\* with files removed from outside
InitMap == InitWith(MaxMapEvents)

NextMap ==
    \/ \E p \in Procs, name \in Names : StartGet(p, name, Nil)
    \/ \E p \in Procs : RLockWake(p)
    \/ \E p \in Procs : VerboseGetShared(p)
    \/ \E p \in Procs : LockStart(p)
    \/ \E p \in Procs : LockWake(p)
    \/ \E p \in Procs : VerboseGetExclusive(p)
    \/ \E p \in Procs, name \in Names, data \in Data : StartUpdate(p, name, data)
    \/ \E p \in Procs : UpdateWrite(p)
    \/ \E p \in Procs : StartStats(p)
    \/ \E p \in Procs : Stats(p)
    \/ Tick
    \/ \E p \in Procs : Cancel(p)
    \/ \E path \in Paths : RemoveFile(path)

SpecMap == InitMap /\ [][NextMap]_vars

\* the typed accessor: GetContext[T], Cache.GetContext and Cache.UpdateContext of one
\* plain name, with cancellation
InitTyped == InitWith(MaxTypedEvents)

NextTyped ==
    \/ \E p \in Procs, typ \in Types \cup {Nil} : StartGet(p, NameA, typ)
    \/ \E p \in Procs : RLockWake(p)
    \/ \E p \in Procs : VerboseGetShared(p)
    \/ \E p \in Procs : LockStart(p)
    \/ \E p \in Procs : LockWake(p)
    \/ \E p \in Procs : VerboseGetExclusive(p)
    \/ \E p \in Procs : TypedPeek(p)
    \/ \E p \in Procs : TypedDecode(p)
    \/ \E p \in Procs : TypedStore(p)
    \/ \E p \in Procs, data \in Data : StartUpdate(p, NameA, data)
    \/ \E p \in Procs : UpdateWrite(p)
    \/ Tick
    \/ \E p \in Procs : Cancel(p)

SpecTyped == InitTyped /\ [][NextTyped]_vars

\* the HTTP get handler in front of the store
InitWeb == InitWith(MaxWebEvents)

NextWeb ==
    \/ \E p \in Procs, query \in Queries, body \in Bodies : StartHandlerGet(p, query, body)
    \/ \E p \in Procs : RLockWake(p)
    \/ \E p \in Procs : VerboseGetShared(p)
    \/ \E p \in Procs : LockStart(p)
    \/ \E p \in Procs : LockWake(p)
    \/ \E p \in Procs : VerboseGetExclusive(p)
    \/ Tick
    \/ RemoveFile(GetPath(NameA))

SpecWeb == InitWeb /\ [][NextWeb]_vars

----------------------------------------------------------------------------
(* config_web.Client *)

\* strings.TrimSuffix(s, "/")
TrimSuffix(s) ==
    IF s # <<>> /\ s[Len(s)] = "/" THEN SubSeq(s, 1, Len(s) - 1) ELSE s

\* lines 124-126 with client.initialized true: return client, the shared lock taken at
\* line 123 still held
OnInitialized(p) ==
    /\ client' = client
    /\ cgo' = [cgo EXCEPT ![p].pc = "idle"]

\* a goroutine calls Client.GetContext or Client.UpdateContext, which starts with
\* client.init(), which starts with client.lock.RLock()
StartInit(p, op) ==
    /\ ~crashed
    /\ pc[p] = "idle" /\ cgo[p].pc = "idle"
    /\ budget > 0
    /\ budget' = budget - 1
    /\ client' = [client EXCEPT !.lock = RLockOp(@)]
    /\ cgo' = [cgo EXCEPT ![p].op = op,
                          ![p].pc = IF RLockBlocks(client.lock) THEN "ci_rwait"
                                    ELSE "ci_shared",
                          ![p].shared = IF RLockBlocks(client.lock) THEN @ ELSE @ + 1]
    /\ UNCHANGED <<now, files, configs, entries, lock, pc, call, loc, ret, ctxDone,
                   crashed, seen, held>>

\* a reader blocked in client.lock.RLock() is woken through readerSem
InitRLockWake(p) ==
    /\ ~crashed
    /\ cgo[p].pc = "ci_rwait"
    /\ client.lock.readerSem > 0
    /\ client' = [client EXCEPT !.lock.readerSem = @ - 1]
    /\ cgo' = [cgo EXCEPT ![p].pc = "ci_shared", ![p].shared = @ + 1]
    /\ UNCHANGED <<now, files, configs, entries, lock, pc, call, loc, ret, ctxDone,
                   crashed, seen, held, budget>>

\* Client.init under the shared lock, lines 124-127
InitShared(p) ==
    /\ ~crashed
    /\ cgo[p].pc = "ci_shared"
    /\ IF client.initialized
       THEN OnInitialized(p) /\ UNCHANGED crashed
       ELSE LET rel == ReleaseShared(client.lock)
            IN IF rel.fatal
               THEN crashed' = TRUE /\ UNCHANGED <<client, cgo>>
               ELSE /\ client' = [client EXCEPT !.lock = rel.lock]
                    /\ cgo' = [cgo EXCEPT ![p].pc = "ci_lock", ![p].shared = @ - 1]
                    /\ UNCHANGED crashed
    /\ UNCHANGED <<now, files, configs, entries, lock, pc, call, loc, ret, ctxDone,
                   seen, held, budget>>

\* client.lock.Lock(), line 128: the first half, up to the wait for the active readers
InitLockStart(p) ==
    /\ ~crashed
    /\ cgo[p].pc = "ci_lock"
    /\ CanLock(client.lock)
    /\ client' = [client EXCEPT !.lock = LockOp(@)]
    /\ cgo' = [cgo EXCEPT ![p].pc = IF LockBlocks(client.lock) THEN "ci_lwait"
                                    ELSE "ci_excl",
                          ![p].exclusive = ~LockBlocks(client.lock)]
    /\ UNCHANGED <<now, files, configs, entries, lock, pc, call, loc, ret, ctxDone,
                   crashed, seen, held, budget>>

\* client.lock.Lock(): the last reader has left and released writerSem
InitLockWake(p) ==
    /\ ~crashed
    /\ cgo[p].pc = "ci_lwait"
    /\ client.lock.writerSem > 0
    /\ client' = [client EXCEPT !.lock.writerSem = @ - 1]
    /\ cgo' = [cgo EXCEPT ![p].pc = "ci_excl", ![p].exclusive = TRUE]
    /\ UNCHANGED <<now, files, configs, entries, lock, pc, call, loc, ret, ctxDone,
                   crashed, seen, held, budget>>

\* Client.init under the exclusive lock, lines 129-139, with the deferred Unlock
InitExclusive(p) ==
    /\ ~crashed
    /\ cgo[p].pc = "ci_excl"
    /\ LET rel == ReleaseExclusive(client.lock)
           body == [client EXCEPT !.Host = TrimSuffix(@), !.initialized = TRUE,
                                  !.inits = @ + 1]
           after == IF client.initialized THEN client ELSE body
       IN IF rel.fatal
          THEN crashed' = TRUE /\ UNCHANGED <<client, cgo>>
          ELSE /\ client' = [after EXCEPT !.lock = rel.lock]
               /\ cgo' = [cgo EXCEPT ![p].pc = "idle", ![p].exclusive = FALSE]
               /\ UNCHANGED crashed
    /\ UNCHANGED <<now, files, configs, entries, lock, pc, call, loc, ret, ctxDone,
                   seen, held, budget>>

\* a step of goroutine p inside Client.init
InitRun(p) ==
    \/ InitRLockWake(p)
    \/ InitShared(p)
    \/ InitLockStart(p)
    \/ InitLockWake(p)
    \/ InitExclusive(p)

\* one Client used by the goroutines of the process
InitClient == InitWith(MaxClientEvents)

NextClient ==
    \/ \E p \in Procs, op \in ClientOps : StartInit(p, op)
    \/ \E p \in Procs : InitRLockWake(p)
    \/ \E p \in Procs : InitShared(p)
    \/ \E p \in Procs : InitLockStart(p)
    \/ \E p \in Procs : InitLockWake(p)
    \/ \E p \in Procs : InitExclusive(p)

SpecClient == InitClient /\ [][NextClient]_vars

\* the same under a fair scheduler
SpecClientFair == SpecClient /\ \A p \in Procs : WF_vars(InitRun(p))

----------------------------------------------------------------------------
(* Properties *)

\* a step of goroutine p inside the call it has made: the scheduler runs every
\* goroutine that can run, and the lock's semaphores wake every waiter they admit
Run(p) ==
    \/ RLockWake(p)
    \/ VerboseGetShared(p)
    \/ LockStart(p)
    \/ LockWake(p)
    \/ VerboseGetExclusive(p)
    \/ UpdateWrite(p)
    \/ UpdateTruncate(p)
    \/ UpdateFinish(p)
    \/ TypedPeek(p)
    \/ TypedDecode(p)
    \/ TypedStore(p)
    \/ Stats(p)

Fairness == \A p \in Procs : WF_vars(Run(p))

\* the store under a fair scheduler
SpecStoreFair == SpecStore /\ Fairness

\* the store with nothing else touching the directory, under a fair scheduler
SpecIOFair == SpecIO /\ Fairness

\* goroutine p's call returns in this step
Returns(p) == pc[p] # "idle" /\ pc'[p] = "idle"

\* goroutine p takes a step of its call, or the process dies
Steps(p) == pc'[p] # pc[p] \/ crashed'

\* the backing file the specification gives a name: <directory>/<name>.json
BackingFile(name) == files[JoinPath(name)]

\* C1: for a name with no Entry, a get whose file <directory>/<name>.json exists returns
\* the file's contents and installs an Entry holding them; a get whose file does not
\* exist returns an error and installs no Entry
C1Step(p) ==
    LET name == call[p].name
    IN (call[p].op = "get" /\ Returns(p) /\ ~ctxDone[p] /\ configs[name] = 0)
       => IF BackingFile(name).exists
          THEN /\ ret'[p].err = Nil
               /\ ret'[p].raw = BackingFile(name).data
               /\ configs'[name] # 0
               /\ entries'[configs'[name]].Raw = BackingFile(name).data
          ELSE /\ ret'[p].err \notin {Nil, "none"}
               /\ configs'[name] = 0

C1FirstLoad == [][\A p \in Procs : C1Step(p)]_vars

\* C2: once update(name, newBytes) has completed and nothing has changed the file
\* since, a get(name) called at least one sync window after the update's write
\* returns newBytes
C2Step(p) ==
    LET name == call[p].name
        file == BackingFile(name)
    IN (/\ call[p].op = "get" /\ Returns(p) /\ ~ctxDone[p]
        /\ file.exists /\ file.by = "update"
        /\ call[p].start >= file.mtime + SyncTimeout)
       => ret'[p].err = Nil /\ ret'[p].raw = file.data

C2UpdateVisible == [][\A p \in Procs : C2Step(p)]_vars

\* C3: a typed get that finds the slot of its Entry holding a value of another type
\* (decoded by an earlier call, no reload in between) returns an error: it neither
\* returns a pointer nor panics
C3Step(p) ==
    (/\ call[p].op = "tget" /\ pc[p] \in {"tg_peek", "tg_excl"} /\ Steps(p)
     /\ ~ctxDone[p] /\ ~loc[p].updated /\ loc[p].cfg # 0
     /\ EntryOf(loc[p].cfg).Value.set
     /\ EntryOf(loc[p].cfg).Value.typ # call[p].typ)
    => Returns(p) /\ ret'[p].err \notin {Nil, "none", "panic"}

C3TypeMismatchIsAnError == [][\A p \in Procs : C3Step(p)]_vars

\* C4: once the decoded slot of an Entry holds a value, no step overwrites it
C4DecodedSetOnce ==
    [][\A e \in DOMAIN entries :
          entries[e].Value.set => entries'[e].Value = entries[e].Value]_vars

\* C5: typed gets of one type that return the same Entry return the same decoded
\* instance
C5SameInstance ==
    \A p, q \in Procs :
        (/\ ret[p].err = Nil /\ ret[q].err = Nil
         /\ ret[p].val.set /\ ret[q].val.set
         /\ ret[p].entry = ret[q].entry
         /\ ret[p].val.typ = ret[q].val.typ)
        => ret[p].val.obj = ret[q].val.obj

\* C6: a get whose stat fails, or whose stat succeeds and whose read under the
\* exclusive lock fails, returns the I/O error to its caller and leaves the mapping
\* unchanged
C6Step(p) ==
    LET name == call[p].name
        config == configs[name]
        statFails == /\ pc[p] = "vg_shared"
                     /\ ~(config # 0 /\ now - EntryOf(config).LastUpdate < SyncTimeout)
                     /\ ~files[GetPath(name)].exists
        readFails == /\ pc[p] = "vg_excl"
                     /\ ~(config # 0 /\ loc[p].mtime <= EntryOf(config).LastUpdate)
                     /\ ~files[GetPath(name)].exists
    IN (call[p].op = "get" /\ Steps(p) /\ ~ctxDone[p] /\ (statFails \/ readFails))
       => /\ Returns(p)
          /\ ret'[p].err = "NotExist"
          /\ configs' = configs
          /\ entries' = entries

C6IOErrorReturned == [][\A p \in Procs : C6Step(p)]_vars

\* C7: a get that finds an Entry older than the sync window and whose stat fails
\* returns the I/O error, not the cached bytes, and leaves the Entry in the mapping
\* as it was
C7Step(p) ==
    LET name == call[p].name
        config == configs[name]
    IN (/\ call[p].op = "get" /\ pc[p] = "vg_shared" /\ Steps(p) /\ ~ctxDone[p]
        /\ config # 0
        /\ now - EntryOf(config).LastUpdate >= SyncTimeout
        /\ ~files[GetPath(name)].exists)
       => /\ Returns(p)
          /\ ret'[p].err = "NotExist"
          /\ ret'[p].raw = Nil
          /\ ret'[p].entry = 0
          /\ configs' = configs
          /\ entries' = entries

C7StaleNeverMasksError == [][\A p \in Procs : C7Step(p)]_vars

\* a get found an Entry under the shared lock, went on to the stat, and returned the
\* stat's error while the Entry is still in the mapping
C7Witness ==
    \E p \in Procs :
        /\ pc[p] = "idle" /\ call[p].op = "get"
        /\ ret[p].err = "NotExist" /\ ret[p].stats = 1 /\ ret[p].reads = 0
        /\ ret[p].saw # 0
        /\ configs[call[p].name] = ret[p].saw

\* C8: the LastUpdate of the Entry installed for a name never decreases, and the
\* LastUpdate values one caller is handed for a name by its successive gets never
\* decrease
C8Installed ==
    \A n \in Names :
        configs[n] # 0 =>
            /\ configs'[n] # 0
            /\ entries'[configs'[n]].LastUpdate >= entries[configs[n]].LastUpdate

C8Observed ==
    \A p \in Procs :
        (Returns(p) /\ ret'[p].err = Nil /\ ret'[p].entry # 0)
        => ret'[p].loadedAt >= seen[p][call[p].name]

C8FreshnessMonotone == [][C8Installed /\ C8Observed]_vars

\* a caller was handed an Entry that replaced an earlier one of the same name and
\* was loaded later
C8Witness ==
    \E p \in Procs :
        /\ pc[p] = "idle" /\ ret[p].err = Nil /\ ret[p].entry # 0
        /\ entries[ret[p].entry].prev # 0
        /\ ret[p].loadedAt > entries[entries[ret[p].entry].prev].LastUpdate

\* C9: no two reads of the file are done for the same name by callers that saw the
\* same Entry and the same modification time under the shared lock; and no read is
\* done of a version of the file the Entry in the mapping was already read from
C9NoRedundantReload ==
    /\ \A i, j \in DOMAIN entries :
          (i < j /\ entries[i].name = entries[j].name)
          => ~(entries[i].obs = entries[j].obs /\ entries[i].statM = entries[j].statM)
    /\ \A j \in DOMAIN entries :
          entries[j].prev # 0 => entries[j].ver # entries[entries[j].prev].ver

\* a get saw a stale Entry, found the file modified, and under the exclusive lock was
\* handed the Entry another caller that had seen the same stale Entry had installed,
\* without reading the file
C9Witness ==
    \E p \in Procs :
        /\ pc[p] = "idle" /\ call[p].op = "get" /\ ret[p].err = Nil
        /\ ret[p].saw # 0 /\ ret[p].entry # ret[p].saw
        /\ ret[p].stats = 1 /\ ret[p].reads = 0
        /\ entries[ret[p].entry].obs = ret[p].saw

\* C10: a get that finds an Entry whose sync window has elapsed and a file whose
\* modification time is not later than the Entry's LastUpdate does a stat and no read,
\* returns the Entry's raw bytes, changes nothing in the mapping and does not take the
\* exclusive lock
C10Step(p) ==
    LET name == call[p].name
        config == configs[name]
        file == files[GetPath(name)]
    IN (/\ call[p].op = "get" /\ pc[p] = "vg_shared" /\ Steps(p) /\ ~ctxDone[p]
        /\ config # 0
        /\ now - EntryOf(config).LastUpdate >= SyncTimeout
        /\ file.exists
        /\ file.mtime <= EntryOf(config).LastUpdate)
       => /\ Returns(p)
          /\ ret'[p].err = Nil
          /\ ret'[p].entry = config
          /\ ret'[p].raw = EntryOf(config).Raw
          /\ ret'[p].stats = 1 /\ ret'[p].reads = 0
          /\ configs' = configs
          /\ entries' = entries
          /\ lock'.w = lock.w

C10MtimeShortCircuit == [][\A p \in Procs : C10Step(p)]_vars

\* a get found a stale Entry, did the stat, and returned that Entry without a read
C10Witness ==
    \E p \in Procs :
        /\ pc[p] = "idle" /\ call[p].op = "get" /\ ret[p].err = Nil
        /\ ret[p].saw # 0 /\ ret[p].entry = ret[p].saw
        /\ ret[p].stats = 1 /\ ret[p].reads = 0

\* C11: an update that succeeds sets the content of <directory>/<name>.json to exactly
\* its bytes and touches no other file; no step of an update changes the mapping or an
\* Entry; and a get inside the freshness window of an Entry returns that Entry's bytes
C11Step(p) ==
    LET name == call[p].name
        config == configs[name]
    IN /\ (call[p].op = "update" /\ Steps(p))
          => configs' = configs /\ entries' = entries
       /\ (call[p].op = "update" /\ Returns(p) /\ ret'[p].err = Nil)
          => /\ BackingFile(name)'.exists
             /\ BackingFile(name)'.data = call[p].data
             /\ \A path \in Paths \ {JoinPath(name)} : files'[path] = files[path]
       /\ (/\ call[p].op = "get" /\ pc[p] = "vg_shared" /\ Steps(p) /\ ~ctxDone[p]
           /\ config # 0 /\ now - EntryOf(config).LastUpdate < SyncTimeout)
          => Returns(p) /\ ret'[p].err = Nil /\ ret'[p].raw = EntryOf(config).Raw

C11UpdateChangesOnlyFile == [][\A p \in Procs : C11Step(p)]_vars

\* a get returned an Entry's bytes while the file, written by an update after the Entry
\* was loaded, holds other bytes
C11Witness ==
    \E p \in Procs :
        /\ pc[p] = "idle" /\ call[p].op = "get" /\ ret[p].err = Nil /\ ret[p].entry # 0
        /\ configs[call[p].name] = ret[p].entry
        /\ BackingFile(call[p].name).exists
        /\ BackingFile(call[p].name).by = "update"
        /\ BackingFile(call[p].name).ver > entries[ret[p].entry].ver
        /\ BackingFile(call[p].name).data # ret[p].raw

\* C12: a typed get that succeeds returns a pointer of the requested type to an object
\* decoded for the Entry it resolved, holding the decode of that Entry's raw bytes; a
\* typed get that fails to decode leaves the slot unset
C12Step(p) ==
    /\ (call[p].op = "tget" /\ Returns(p) /\ ret'[p].err = Nil)
       => /\ ret'[p].entry # 0
          /\ ret'[p].val.set
          /\ ret'[p].val.typ = call[p].typ
          /\ ret'[p].val.obj[1] = ret'[p].entry
          /\ ret'[p].val.val = Unmarshal(entries'[ret'[p].entry].Raw, call[p].typ)
    /\ (call[p].op = "tget" /\ Returns(p) /\ ret'[p].err = "Syntax")
       => entries' = entries /\ ~entries[loc[p].cfg].Value.set

C12TypedIsDecodeOfEntry == [][\A p \in Procs : C12Step(p)]_vars

\* C13: while a caller holds the exclusive lock (an update writing the file, a reload
\* reading it) no other caller holds the lock; no Entry holds the content of a file
\* that was truncated and not yet written; and with only gets and updates at work on an
\* existing file, no get returns an error other than the cancellation
C13WriteExcludesRead ==
    /\ \A p, q \in Procs :
          (p # q /\ pc[p] \in {"up_excl", "up_write", "vg_excl"})
          => pc[q] \notin {"up_excl", "up_write", "vg_excl", "vg_shared"}
    /\ \A e \in DOMAIN entries : entries[e].Raw # DocEmpty
    /\ \A p \in Procs :
          (call[p].op = "get" /\ pc[p] = "idle") => ret[p].err \in {"none", Nil, "Canceled"}
    /\ ~crashed

\* a get waits for the lock while an update has truncated the file and not yet written
\* its content
C13Witness ==
    \E p, q \in Procs :
        /\ pc[p] = "up_write" /\ files[UpdatePath(call[p].name)].data = DocEmpty
        /\ call[q].op = "get" /\ pc[q] \in {"vg_rwait", "vg_lock"}

\* C14: a get, typed get or update whose context is cancelled before its first check
\* returns the cancellation error having done no stat, read or write, and changes
\* neither the mapping nor a file; so does a typed get cancelled before the check under
\* its exclusive lock; a get cancelled between its shared and its exclusive stage
\* returns the cancellation error without a read and installs nothing
C14Step(p) ==
    /\ (/\ ctxDone[p] /\ Steps(p)
        /\ \/ call[p].op \in {"get", "tget"} /\ pc[p] = "vg_shared"
           \/ call[p].op = "update" /\ pc[p] = "up_excl")
       => /\ Returns(p)
          /\ ret'[p].err = "Canceled"
          /\ ret'[p].stats = 0 /\ ret'[p].reads = 0 /\ ret'[p].writes = 0
          /\ configs' = configs /\ entries' = entries /\ files' = files
    /\ (/\ ctxDone[p] /\ Steps(p)
        /\ call[p].op \in {"get", "tget"} /\ pc[p] \in {"vg_excl", "tg_excl"})
       => /\ Returns(p)
          /\ ret'[p].err = "Canceled"
          /\ ret'[p].reads = loc[p].reads
          /\ pc[p] = "vg_excl" => ret'[p].reads = 0
          /\ configs' = configs /\ entries' = entries /\ files' = files

C14CancelLeavesState == [][\A p \in Procs : C14Step(p)]_vars

\* a get was cancelled after its stat and returned the cancellation error without a
\* read, the name still having no Entry
C14Witness ==
    \E p \in Procs :
        /\ pc[p] = "idle" /\ call[p].op \in {"get", "tget"}
        /\ ret[p].err = "Canceled" /\ ret[p].stats = 1 /\ ret[p].reads = 0
        /\ configs[call[p].name] = 0

\* C15: a caller whose context is cancelled begins no acquisition of the exclusive lock
\* and no stat, read or write
C15Step(p) ==
    (ctxDone[p] /\ Steps(p))
    => /\ ~(pc[p] \in {"vg_lock", "tg_lock", "up_lock"} /\ pc'[p] # pc[p])
       /\ files' = files
       /\ Returns(p) => ret'[p].stats + ret'[p].reads + ret'[p].writes
                          = loc[p].stats + loc[p].reads + loc[p].writes

C15CancelledStartsNothing == [][\A p \in Procs : C15Step(p)]_vars

\* C16: a name is a key of the mapping exactly when a reload of it has succeeded; no
\* step removes a key; a step that gives a name another Entry gives it a new instance
\* and leaves the old ones as they were; and stats returns the directory and the keys
\* the mapping has at that moment
C16Keys ==
    \A n \in Names : configs[n] # 0 <=> \E e \in DOMAIN entries : entries[e].name = n

C16Step ==
    /\ \A n \in Names :
          /\ configs[n] # 0 => configs'[n] # 0
          /\ configs'[n] # configs[n]
             => /\ configs'[n] \notin DOMAIN entries
                /\ entries'[configs'[n]].name = n
                /\ \A e \in DOMAIN entries : entries'[e] = entries[e]
    /\ \A p \in Procs :
          (call[p].op = "stats" /\ Returns(p))
          => /\ ret'[p].err = Nil
             /\ ret'[p].snapshot.Directory = Directory
             /\ ret'[p].snapshot.Configs = {n \in Names : configs[n] # 0}

C16MappingOnlyGrows == [][C16Keys /\ C16Keys' /\ C16Step]_vars

\* stats returned a key of the mapping whose file had been removed
C16Witness ==
    \E p \in Procs :
        /\ pc[p] = "idle" /\ call[p].op = "stats" /\ ret[p].err = Nil
        /\ \E n \in ret[p].snapshot.Configs :
              configs[n] # 0 /\ ~files[GetPath(n)].exists

\* the name the handler is to use: the query parameter, else the body's config field
C17Name(query, body) ==
    IF query # NoName THEN query ELSE IF body.valid THEN body.Config ELSE NoName

\* C17: a request whose name (query parameter, else the body's config field) is given
\* is answered 200 with the raw bytes when the store's get succeeds and 500 with an
\* error body when it fails; a request with no name, or with a body that cannot be
\* parsed, is answered 400 with an error body
C17HandlerGetResponse ==
    \A p \in Procs :
        (call[p].op = "hget" /\ pc[p] = "idle" /\ ret[p].err # "none")
        => LET name == C17Name(call[p].query, call[p].body)
           IN IF name = NoName
              THEN ret[p].resp = [status |-> StatusBadRequest, body |-> ErrorBody]
              ELSE \/ /\ ret[p].resp.status = StatusOK
                      /\ ret[p].entry # 0
                      /\ entries[ret[p].entry].name = name
                      /\ ret[p].resp.body = entries[ret[p].entry].Raw
                   \/ ret[p].resp = [status |-> StatusInternalServerError,
                                     body |-> ErrorBody]

\* C18: a get that finds an Entry younger than the sync window returns that Entry's
\* bytes in its step under the shared lock, with no stat and no read, changes neither
\* the mapping nor a file and leaves the writer mutex alone, whatever the file is now
C18Step(p) ==
    LET name == call[p].name
        config == configs[name]
    IN (/\ call[p].op = "get" /\ pc[p] = "vg_shared" /\ Steps(p) /\ ~ctxDone[p]
        /\ config # 0
        /\ now - EntryOf(config).LastUpdate < SyncTimeout)
       => /\ Returns(p)
          /\ ret'[p].err = Nil
          /\ ret'[p].entry = config
          /\ ret'[p].raw = EntryOf(config).Raw
          /\ ret'[p].stats = 0 /\ ret'[p].reads = 0
          /\ configs' = configs /\ entries' = entries /\ files' = files
          /\ lock'.w = lock.w /\ held[p] = "shared" /\ held'[p] = "none"

C18FastPath == [][\A p \in Procs : C18Step(p)]_vars

\* a get returned an Entry on the fast path although the file had been removed or
\* changed since the Entry was loaded
C18Witness ==
    \E p \in Procs :
        /\ pc[p] = "idle" /\ call[p].op = "get" /\ ret[p].err = Nil
        /\ ret[p].saw # 0 /\ ret[p].entry = ret[p].saw /\ ret[p].stats = 0
        /\ files[GetPath(call[p].name)].ver # entries[ret[p].entry].ver

\* C19: a caller that requests the exclusive lock holds no lock; and after the
\* exclusive lock is acquired the condition is checked again on the mapping as it is
\* then: a get that finds an Entry not older than the modification time it saw reads
\* nothing and returns that Entry, a typed get that finds the slot set by another
\* caller decodes nothing
C19Step(p) ==
    LET name == call[p].name
        config == configs[name]
    IN /\ (pc[p] \in {"vg_lock", "tg_lock", "up_lock"} /\ pc'[p] # pc[p])
          => held[p] = "none"
       /\ (/\ pc[p] = "vg_excl" /\ Steps(p) /\ ~ctxDone[p]
           /\ config # 0 /\ loc[p].mtime <= EntryOf(config).LastUpdate)
          => /\ configs' = configs /\ entries' = entries
             /\ loc'[p].reads = 0 /\ ret'[p].reads = 0
             /\ call[p].op = "get" => Returns(p) /\ ret'[p].entry = config
       /\ (/\ pc[p] = "tg_excl" /\ Steps(p) /\ ~ctxDone[p] /\ ~loc[p].updated
           /\ EntryOf(loc[p].cfg).Value.set)
          => entries' = entries /\ Returns(p)

C19LockOrdering == [][\A p \in Procs : C19Step(p)]_vars

\* a caller holds the exclusive lock it asked for after its stat under the shared lock,
\* while the Entry another caller installed in between is in the mapping
C19Witness ==
    \E p \in Procs :
        /\ pc[p] = "vg_excl" /\ held[p] = "exclusive" /\ loc[p].stats = 1
        /\ configs[call[p].name] # loc[p].saw

\* C20: no caller releases a lock it does not hold, and no caller is back from its call
\* holding a lock
C20LockBalance ==
    \A p \in Procs :
        /\ held[p] # "bad"
        /\ pc[p] = "idle" => held[p] = "none"

\* C21: under a fair scheduler and a fair lock every call that was made returns
C21EveryCallReturns == \A p \in Procs : (pc[p] # "idle") ~> (pc[p] = "idle")

\* C22: a caller about to read the mapping or a decoded slot holds the shared or the
\* exclusive lock, a caller about to write either holds the exclusive lock, and no
\* caller is about to read the decoded slot of an Entry while another is about to
\* write it
C22SlotAccessLocked ==
    /\ \A p \in Procs :
          /\ pc[p] \in {"vg_shared", "st_shared"} => held[p] = "shared"
          /\ pc[p] \in {"vg_excl", "tg_excl", "tg_store"} => held[p] = "exclusive"
          /\ pc[p] = "tg_peek" => held[p] \in {"shared", "exclusive"}
    /\ \A p, q \in Procs :
          (p # q /\ pc[p] = "tg_peek" /\ pc[q] = "tg_store") => loc[p].cfg # loc[q].cfg

\* C23: the file an update writes is the file a get of the same name stats and reads,
\* and two names that are keys of the mapping have different backing files
C23Step(p) ==
    (call[p].op = "update" /\ Returns(p) /\ ret'[p].err = Nil)
    => /\ UpdatePath(call[p].name) = GetPath(call[p].name)
       /\ files'[GetPath(call[p].name)].data = call[p].data

C23Keys ==
    \A n, m \in Names :
        (n # m /\ configs[n] # 0 /\ configs[m] # 0) => GetPath(n) # GetPath(m)

C23SameBackingFile == [][C23Keys' /\ \A p \in Procs : C23Step(p)]_vars

\* C24: the body of Client.init runs at most once, a goroutine back from
\* Client.init holds no lock of the Client, and under a fair scheduler every call of
\* Client.init returns
C24InitReturnsUnlocked ==
    \A p \in Procs : cgo[p].pc = "idle" => (cgo[p].shared = 0 /\ ~cgo[p].exclusive)

C24ClientInit ==
    /\ [](client.inits <= 1 /\ C24InitReturnsUnlocked /\ ~crashed)
    /\ \A p \in Procs : (cgo[p].pc # "idle") ~> (cgo[p].pc = "idle")

====
